---- MODULE Spec2Model ----
(***************************************************************************)
(* A model of the two utilities of the repository:                         *)
(*   scripts/preprocess_data.py  preprocess_dataset and its CLI entry      *)
(*   utils/plotting.py           plot_training_history_with_annotations    *)
(* Three specifications share the variables:                               *)
(*   Spec      the preprocessing batch over a dataset directory            *)
(*   SpecPad   the padded crop rectangle, over all images and rectangles   *)
(*   SpecPlot  the training-curve renderer                                 *)
(***************************************************************************)
EXTENDS Integers, Sequences, FiniteSets, TLC

VARIABLES
    data,         \* the input tree at data_dir (never written by the program)
    out,          \* the tree at output_dir
    out0,         \* the tree at output_dir before the first run
    snapshot,     \* the tree at output_dir when the previous run completed
    pc,           \* position of the preprocessing run
    run,          \* which run of preprocess_dataset this is (1 = first)
    class_names,  \* sorted(os.listdir(data_dir))
    idx,          \* position of the outer loop in class_names
    todo,         \* names of os.listdir(class_path) the inner loop has yet to visit
    log,          \* the lines printed by the current run
    exit_status,  \* the exit status of the script: -1 while running
    pad_st,       \* SpecPad: one image, its bounding rectangle and the crop
    plot_st       \* SpecPlot: the call's arguments, position and effects

vars == <<data, out, out0, snapshot, pc, run, class_names, idx, todo, log,
          exit_status, pad_st, plot_st>>

main_vars == <<data, out, out0, snapshot, pc, run, class_names, idx, todo, log,
               exit_status>>

(***************************************************************************)
(* Bounds of the model.                                                    *)
(***************************************************************************)
MaxFiles == 2
MaxRuns == 2
MaxW == 22
MaxH == 12
MaxEpochs == 3
MaxVal == 2

\* The root entries of data_dir; a smaller number is a name that sorts first.
Classes == {1, 2}

Max(a, b) == IF a >= b THEN a ELSE b
Min(a, b) == IF a <= b THEN a ELSE b

(***************************************************************************)
(* The padded crop rectangle (preprocess_data.py, lines 38-45).            *)
(***************************************************************************)
pad == 10

PadOrigin(x) == Max(0, x - pad)

PadExtentUnclamped(dim, x0, w) == w + 2 * pad

PadExtent(dim, x0, w) == Min(dim - x0, w + 2 * pad)

\* img.shape[1] is the width W, img.shape[0] the height H; box is the
\* bounding rectangle <<x, y, w, h>> of the largest contour.
CropRect(W, H, box) ==
    LET x == PadOrigin(box[1])
        y == PadOrigin(box[2])
        w == PadExtent(W, x, box[3])
        h == PadExtent(H, y, box[4])
    IN  <<x, y, w, h>>

\* img[y:y+h, x:x+w]: a numpy slice clips to the array, and is empty when
\* a stop is not beyond its start.
SliceLen(lo, hi, dim) ==
    LET a == Min(Max(lo, 0), dim)
        b == Min(Max(hi, 0), dim)
    IN  Max(0, b - a)

CroppedShape(W, H, r) ==
    <<SliceLen(r[1], r[1] + r[3], W), SliceLen(r[2], r[2] + r[4], H)>>

(***************************************************************************)
(* The dataset and the output tree.                                        *)
(***************************************************************************)
target_size == <<160, 160>>

\* The marker image of the dataset model: 40 x 30 pixels, the largest pink
\* contour bounded by <<x, y, w, h>> = <<5, 12, 8, 6>>.
MarkerShape == [W |-> 40, H |-> 30, box |-> <<5, 12, 8, 6>>]

\* kind: what cv2.imread and cv2.findContours make of the file;
\* ext: whether cv2.imwrite has an encoder for the extension of its name.
Images ==
    {[kind |-> "unreadable", ext |-> TRUE], [kind |-> "nomarker", ext |-> TRUE],
     [kind |-> "marker", ext |-> TRUE], [kind |-> "marker", ext |-> FALSE]}

FileNames == 1..MaxFiles

Listings == UNION {[1..n -> Images] : n \in 0..MaxFiles}

\* A root entry of data_dir: a class subdirectory or a non-directory.
Entries ==
    {[isdir |-> FALSE, files |-> <<>>]} \cup {[isdir |-> TRUE, files |-> l] : l \in Listings}

NoFile == [tag |-> "none"]
StaleFile == [tag |-> "stale"]

NoFiles == [f \in FileNames |-> NoFile]

AbsentEntry == [kind |-> "absent", files |-> NoFiles]

EmptyTree(root) == [root |-> root, cls |-> [c \in Classes |-> AbsentEntry]]

\* What can be at output_dir before the first run: nothing, an empty
\* directory, a non-directory, or a directory holding something at the path
\* of the first class: a non-directory, or a directory with one file.
InitialTrees ==
    {EmptyTree("absent"), EmptyTree("dir"), EmptyTree("file"),
     [EmptyTree("dir") EXCEPT !.cls[1] = [kind |-> "file", files |-> NoFiles]],
     [EmptyTree("dir") EXCEPT !.cls[1] =
         [kind |-> "dir", files |-> [NoFiles EXCEPT ![1] = StaleFile]]]}

IsEmptyTree(t) == t.root \in {"absent", "dir"} /\ \A c \in Classes : t.cls[c] = AbsentEntry

RECURSIVE Sorted(_)
Sorted(S) ==
    IF S = {} THEN <<>>
    ELSE LET m == CHOOSE x \in S : \A y \in S : x <= y
         IN  <<m>> \o Sorted(S \ {m})

\* cv2.imread returns None for a file it cannot decode.
Readable(img) == img.kind # "unreadable"

HasContoursAlways(img) == TRUE

\* contours is non-empty exactly when the mask has a pixel in the pink range.
HasContours(img) == img.kind = "marker"

ResizeKeepsShape(shape, size) == [ok |-> shape[1] >= 1 /\ shape[2] >= 1, size |-> shape]

\* cv2.resize(cropped, target_size): raises on an empty source.
Resize(shape, size) == [ok |-> shape[1] >= 1 /\ shape[2] >= 1, size |-> size]

SaveSlotNextFree(files, f) ==
    IF files[f] = NoFile \/ \A g \in FileNames : files[g] # NoFile THEN f
    ELSE CHOOSE g \in FileNames : files[g] = NoFile

\* save_path = os.path.join(output_class_path, img_name): the name written
\* in the class's output directory.
SaveSlot(files, f) == f

RemainingBreak(s, f, outcome) == IF outcome = "skip" THEN {} ELSE s \ {f}

\* The inner loop after one iteration: `continue` and the fall through both
\* go on with the rest of the listing.
Remaining(s, f, outcome) == s \ {f}

\* One inner-loop iteration on image img, named f in class c:
\* "skip" (line 30), "warn" (line 51), "write" (line 49) or "raise".
Outcome(img) ==
    IF ~Readable(img) THEN "skip"
    ELSE IF ~HasContours(img) THEN "warn"
    ELSE LET r == CropRect(MarkerShape.W, MarkerShape.H, MarkerShape.box)
             z == Resize(CroppedShape(MarkerShape.W, MarkerShape.H, r), target_size)
         IN  IF ~z.ok \/ ~img.ext THEN "raise" ELSE "write"

Written(c, f) ==
    LET r == CropRect(MarkerShape.W, MarkerShape.H, MarkerShape.box)
        z == Resize(CroppedShape(MarkerShape.W, MarkerShape.H, r), target_size)
    IN  [tag |-> "image", src |-> <<c, f>>, rect |-> r, size |-> z.size]

(***************************************************************************)
(* preprocess_dataset, one action per step.                                *)
(***************************************************************************)
PadIdle == [pc |-> "idle"]
PlotIdle == [pc |-> "idle"]

Init ==
    /\ data \in [exists : BOOLEAN, entries : [Classes -> Entries]]
    /\ (~data.exists => \A c \in Classes : ~data.entries[c].isdir)
    /\ out \in InitialTrees
    /\ out0 = out
    /\ snapshot = out
    /\ pc = "start"
    /\ run = 1
    /\ class_names = <<>>
    /\ idx = 1
    /\ todo = {}
    /\ log = {}
    /\ exit_status = -1
    /\ pad_st = PadIdle
    /\ plot_st = PlotIdle

Crash ==
    /\ pc' = "crashed"
    /\ exit_status' = 1

\* line 14: os.makedirs(output_dir, exist_ok=True)
MakeOutputDir ==
    /\ pc = "start"
    /\ IF out.root = "file"
       THEN Crash /\ UNCHANGED out
       ELSE /\ out' = [out EXCEPT !.root = "dir"]
            /\ pc' = "listdir"
            /\ UNCHANGED exit_status
    /\ UNCHANGED <<data, out0, snapshot, run, class_names, idx, todo, log, pad_st, plot_st>>

\* line 16: class_names = sorted(os.listdir(data_dir))
ListDataDir ==
    /\ pc = "listdir"
    /\ IF ~data.exists
       THEN Crash /\ UNCHANGED <<class_names, idx>>
       ELSE /\ class_names' = Sorted(DOMAIN data.entries)
            /\ idx' = 1
            /\ pc' = "classes"
            /\ UNCHANGED exit_status
    /\ UNCHANGED <<data, out, out0, snapshot, run, todo, log, pad_st, plot_st>>

\* lines 17-25: the head of the outer loop, up to the listing of the class
NextClass ==
    /\ pc = "classes"
    /\ idx <= Len(class_names)
    /\ LET c == class_names[idx]
       IN  IF ~data.entries[c].isdir
           THEN /\ idx' = idx + 1
                /\ UNCHANGED <<out, pc, todo, exit_status>>
           ELSE IF out.cls[c].kind = "file"
           THEN Crash /\ UNCHANGED <<out, idx, todo>>
           ELSE /\ out' = [out EXCEPT !.cls[c].kind = "dir"]
                /\ todo' = DOMAIN data.entries[c].files
                /\ pc' = "files"
                /\ UNCHANGED <<idx, exit_status>>
    /\ UNCHANGED <<data, out0, snapshot, run, class_names, log, pad_st, plot_st>>

\* lines 25-51: one iteration of the inner loop, on any name not yet visited
\* (os.listdir returns the names in arbitrary order)
ProcessImage ==
    /\ pc = "files"
    /\ \E f \in todo :
         LET c == class_names[idx]
             img == data.entries[c].files[f]
             o == Outcome(img)
         IN  /\ todo' = Remaining(todo, f, o)
             /\ CASE o = "skip" ->
                       /\ log' = log \cup {<<"SKIP", c, f>>}
                       /\ UNCHANGED <<out, pc, exit_status>>
                  [] o = "warn" ->
                       /\ log' = log \cup {<<"WARNING", c, f>>}
                       /\ UNCHANGED <<out, pc, exit_status>>
                  [] o = "write" ->
                       /\ out' = [out EXCEPT !.cls[c].files[SaveSlot(out.cls[c].files, f)] =
                                                 Written(c, f)]
                       /\ UNCHANGED <<log, pc, exit_status>>
                  [] o = "raise" ->
                       /\ Crash
                       /\ UNCHANGED <<out, log>>
    /\ UNCHANGED <<data, out0, snapshot, run, class_names, idx, pad_st, plot_st>>

\* line 25, listing exhausted: back to the outer loop
EndOfClass ==
    /\ pc = "files"
    /\ todo = {}
    /\ pc' = "classes"
    /\ idx' = idx + 1
    /\ UNCHANGED <<data, out, out0, snapshot, run, class_names, todo, log, exit_status,
                   pad_st, plot_st>>

\* line 53 and the return to __main__ (line 61): the script ends with status 0
Complete ==
    /\ pc = "classes"
    /\ idx > Len(class_names)
    /\ log' = log \cup {<<"COMPLETE", 0, 0>>}
    /\ pc' = "done"
    /\ exit_status' = 0
    /\ UNCHANGED <<data, out, out0, snapshot, run, class_names, idx, todo, pad_st, plot_st>>

\* lines 55-61: the script is run again on the same data_dir and output_dir
Rerun ==
    /\ pc = "done"
    /\ run < MaxRuns
    /\ snapshot' = out
    /\ run' = run + 1
    /\ pc' = "start"
    /\ class_names' = <<>>
    /\ idx' = 1
    /\ todo' = {}
    /\ log' = {}
    /\ exit_status' = -1
    /\ UNCHANGED <<data, out, out0, pad_st, plot_st>>

Next ==
    \/ MakeOutputDir
    \/ ListDataDir
    \/ NextClass
    \/ ProcessImage
    \/ EndOfClass
    \/ Complete
    \/ Rerun

Spec == Init /\ [][Next]_vars

(***************************************************************************)
(* SpecPad: lines 38-45 on every image of at most MaxW x MaxH pixels and   *)
(* every bounding rectangle cv2.boundingRect can return inside it.         *)
(***************************************************************************)
MainIdle ==
    /\ data = [exists |-> FALSE, entries |-> [c \in Classes |-> [isdir |-> FALSE, files |-> <<>>]]]
    /\ out = EmptyTree("absent")
    /\ out0 = out
    /\ snapshot = out
    /\ pc = "idle"
    /\ run = 1
    /\ class_names = <<>>
    /\ idx = 1
    /\ todo = {}
    /\ log = {}
    /\ exit_status = -1

InitPad ==
    /\ MainIdle
    /\ plot_st = PlotIdle
    /\ \E W \in 1..MaxW, H \in 1..MaxH :
         \E x \in 0..(W - 1), y \in 0..(H - 1) :
           \E w \in 1..(W - x), h \in 1..(H - y) :
             pad_st = [pc |-> "contours", W |-> W, H |-> H, box |-> <<x, y, w, h>>,
                       crop |-> <<0, 0, 0, 0>>, shape |-> <<0, 0>>]

\* lines 38-45: the bounding rectangle is padded and the image cropped
PadAndCrop ==
    /\ pad_st.pc = "contours"
    /\ LET r == CropRect(pad_st.W, pad_st.H, pad_st.box)
       IN  pad_st' = [pad_st EXCEPT !.pc = "cropped", !.crop = r,
                                    !.shape = CroppedShape(pad_st.W, pad_st.H, r)]
    /\ UNCHANGED <<main_vars, plot_st>>

NextPad == PadAndCrop

SpecPad == InitPad /\ [][NextPad]_vars

(***************************************************************************)
(* SpecPlot: plot_training_history_with_annotations (plotting.py).         *)
(* Metric values are levels 0..MaxVal; a Python value is a record with its *)
(* type, so that None and a list stay apart.                               *)
(***************************************************************************)
Keys == {"accuracy", "val_accuracy", "loss", "val_loss"}

PyNone == [type |-> "NoneType", val |-> <<>>]
PyList(s) == [type |-> "list", val |-> s]

\* A file name as savefig sees it: what precedes the extension, and the
\* extension ("" when the name has none).
Path(stem, ext) == [stem |-> stem, ext |-> ext]
PyStr(p) == [type |-> "str", val |-> p]

\* history.history.get(key): None when the key is absent
Get(hh, key) == IF hh[key].present THEN PyList(hh[key].vals) ELSE PyNone

RECURSIVE PyMax(_)
PyMax(s) == IF Len(s) = 1 THEN s[1] ELSE Max(s[1], PyMax(Tail(s)))

RECURSIVE PyMin(_)
PyMin(s) == IF Len(s) = 1 THEN s[1] ELSE Min(s[1], PyMin(Tail(s)))

\* list.index(v): the 0-based position of the first element equal to v
PyIndex(s, v) == (CHOOSE i \in 1..Len(s) : s[i] = v /\ \A j \in 1..(i - 1) : s[j] # v) - 1

BestEpochZeroBased(s, v) == PyIndex(s, v)

\* lines 11 and 14: the epoch of the best value, counted from 1
BestEpoch(s, v) == PyIndex(s, v) + 1

\* max(v) and min(v) raise TypeError on None and ValueError on an empty list
Reducible(v) == v.type = "list" /\ Len(v.val) >= 1

\* len(acc) raises TypeError on None
HasLen(v) == v.type = "list"

PlotArgsLenient(y) == TRUE

\* plt.plot(epochs, y, ...): matplotlib raises ValueError when y is None
PlotArgsOk(y) == y.type # "NoneType"

\* f'{save_path}': None is formatted as the text None
Format(v) == IF v.type = "NoneType" THEN Path("None", "") ELSE v.val

\* plt.savefig(fname): a name without an extension gets the default format's
SavefigTarget(fname) == IF fname.ext = "" THEN Path(fname.stem, "png") ELSE fname

Present(s) == [present |-> TRUE, vals |-> s]
Absent == [present |-> FALSE, vals |-> <<>>]

NoBest == [acc_epoch |-> 0, acc |-> 0, loss_epoch |-> 0, loss |-> 0]

SavePaths == {PyNone, PyStr(Path("chart", "png"))}

InitPlot ==
    /\ MainIdle
    /\ pad_st = PadIdle
    /\ \E n \in 0..MaxEpochs :
         \E va \in {Absent} \cup {Present(s) : s \in [1..n -> 0..MaxVal]},
            vl \in {Absent} \cup {Present(s) : s \in [1..n -> 0..MaxVal]},
            a \in {Absent, Present([i \in 1..n |-> 0])},
            l \in {Absent, Present([i \in 1..n |-> 0])},
            sp \in SavePaths :
           plot_st = [pc |-> "start",
                      history |-> [k \in Keys |->
                                     CASE k = "accuracy" -> a
                                       [] k = "val_accuracy" -> va
                                       [] k = "loss" -> l
                                       [] k = "val_loss" -> vl],
                      save_path |-> sp, epochs |-> 0, best |-> NoBest,
                      figure |-> FALSE, fs |-> {}, shown |-> FALSE, err |-> "none"]

acc == Get(plot_st.history, "accuracy")
val_acc == Get(plot_st.history, "val_accuracy")
loss == Get(plot_st.history, "loss")
val_loss == Get(plot_st.history, "val_loss")

Raise(e) == plot_st' = [plot_st EXCEPT !.pc = "error", !.err = e]

\* lines 4-15: the four sequences are fetched and the best epochs computed
ComputeBest ==
    /\ plot_st.pc = "start"
    /\ IF ~HasLen(acc) THEN Raise("TypeError")
       ELSE IF val_acc.type = "NoneType" THEN Raise("TypeError")
       ELSE IF ~Reducible(val_acc) THEN Raise("ValueError")
       ELSE IF val_loss.type = "NoneType" THEN Raise("TypeError")
       ELSE IF ~Reducible(val_loss) THEN Raise("ValueError")
       ELSE plot_st' = [plot_st EXCEPT
                !.pc = "accuracy_panel",
                !.epochs = Len(acc.val),
                !.best = [acc_epoch |-> BestEpoch(val_acc.val, PyMax(val_acc.val)),
                          acc |-> PyMax(val_acc.val),
                          loss_epoch |-> BestEpoch(val_loss.val, PyMin(val_loss.val)),
                          loss |-> PyMin(val_loss.val)]]
    /\ UNCHANGED <<main_vars, pad_st>>

\* lines 17-30: the figure is created and the accuracy panel drawn
PlotAccuracy ==
    /\ plot_st.pc = "accuracy_panel"
    /\ IF PlotArgsOk(acc) /\ PlotArgsOk(val_acc)
       THEN plot_st' = [plot_st EXCEPT !.pc = "loss_panel", !.figure = TRUE]
       ELSE plot_st' = [plot_st EXCEPT !.pc = "error", !.err = "ValueError", !.figure = TRUE]
    /\ UNCHANGED <<main_vars, pad_st>>

\* lines 32-43: the loss panel is drawn
PlotLoss ==
    /\ plot_st.pc = "loss_panel"
    /\ IF PlotArgsOk(loss) /\ PlotArgsOk(val_loss)
       THEN plot_st' = [plot_st EXCEPT !.pc = "savefig"]
       ELSE Raise("ValueError")
    /\ UNCHANGED <<main_vars, pad_st>>

\* lines 45-47: the title is set and the figure saved
SaveFig ==
    /\ plot_st.pc = "savefig"
    /\ plot_st' = [plot_st EXCEPT
            !.pc = "show",
            !.fs = plot_st.fs \cup {SavefigTarget(Format(plot_st.save_path))}]
    /\ UNCHANGED <<main_vars, pad_st>>

\* line 48: the figure is displayed
Show ==
    /\ plot_st.pc = "show"
    /\ plot_st' = [plot_st EXCEPT !.pc = "done", !.shown = TRUE]
    /\ UNCHANGED <<main_vars, pad_st>>

NextPlot ==
    \/ ComputeBest
    \/ PlotAccuracy
    \/ PlotLoss
    \/ SaveFig
    \/ Show

SpecPlot == InitPlot /\ [][NextPlot]_vars

(***************************************************************************)
(* Properties of preprocess_dataset (Spec).                                *)
(***************************************************************************)
FirstRunDoneFromEmpty == pc = "done" /\ run = 1 /\ IsEmptyTree(out0)

OutputFiles(c) == {f \in FileNames : out.cls[c].files[f] # NoFile}

ImagesOfKind(c, k) ==
    IF data.entries[c].isdir
    THEN {f \in DOMAIN data.entries[c].files : data.entries[c].files[f].kind = k}
    ELSE {}

\* C1: when a run on an initially empty output_dir has completed, every
\* readable image with a pink contour, named f in class c, has a file at
\* output_dir/c/f, made from that image, whose resolution is target_size.
C1_MarkerImagesWritten ==
    FirstRunDoneFromEmpty =>
        \A c \in Classes : \A f \in ImagesOfKind(c, "marker") :
            /\ out.cls[c].kind = "dir"
            /\ out.cls[c].files[f].tag = "image"
            /\ out.cls[c].files[f].src = <<c, f>>
            /\ out.cls[c].files[f].size = target_size

C1_Witness ==
    /\ FirstRunDoneFromEmpty
    /\ ImagesOfKind(1, "marker") = {1, 2}
    /\ ImagesOfKind(2, "marker") = {1}
    /\ out.cls[2].files[1].tag = "image"
    /\ out.cls[2].files[1].size = <<160, 160>>

\* C2: when a run on an initially empty output_dir has completed, no image
\* without a pink contour has an output file, and the number of files under
\* output_dir/c is the number of readable marker images of class c.
C2_MarkerlessSkipped ==
    FirstRunDoneFromEmpty =>
        \A c \in Classes :
            /\ \A f \in ImagesOfKind(c, "nomarker") : out.cls[c].files[f] = NoFile
            /\ Cardinality(OutputFiles(c)) = Cardinality(ImagesOfKind(c, "marker"))

C2_Witness ==
    /\ FirstRunDoneFromEmpty
    /\ data.entries[1].isdir /\ Len(data.entries[1].files) = 1
    /\ data.entries[2].isdir /\ Len(data.entries[2].files) = 1
    /\ ImagesOfKind(1, "marker") = {1}
    /\ ImagesOfKind(2, "nomarker") = {1}
    /\ Cardinality(OutputFiles(1)) = 1
    /\ Cardinality(OutputFiles(2)) = 0
    /\ <<"WARNING", 2, 1>> \in log

SkipLogged(c, f) == <<"SKIP", c, f>> \notin log /\ <<"SKIP", c, f>> \in log'

AllHandled ==
    \A c \in Classes :
        /\ \A f \in ImagesOfKind(c, "unreadable") : <<"SKIP", c, f>> \in log
        /\ \A f \in ImagesOfKind(c, "nomarker") : <<"WARNING", c, f>> \in log
        /\ \A f \in ImagesOfKind(c, "marker") : out.cls[c].files[f].tag = "image"

\* C3: the step that meets an unreadable image logs the skip, leaves the
\* output tree as it was and goes on with the rest of the class's listing;
\* and a completed run has handled every file of every class, the files
\* and classes after an unreadable file included.
C3_UnreadableSkipped ==
    /\ [][\A c \in Classes : \A f \in FileNames :
            SkipLogged(c, f) =>
                /\ data.entries[c].files[f].kind = "unreadable"
                /\ out' = out
                /\ pc' = "files"
                /\ idx' = idx
                /\ todo' = todo \ {f}
                /\ exit_status' = exit_status]_vars
    /\ [](pc = "done" => AllHandled)

C3_Witness ==
    /\ pc = "done"
    /\ ImagesOfKind(1, "unreadable") = {1}
    /\ <<"SKIP", 1, 1>> \in log
    /\ ImagesOfKind(1, "marker") = {2}
    /\ out.cls[1].files[2].tag = "image"
    /\ out.cls[1].files[1] = NoFile
    /\ ImagesOfKind(2, "marker") = {1}
    /\ out.cls[2].files[1].tag = "image"

\* C5: the batch has no fatal path: no run ends by an uncaught exception
\* (exit status other than 0).
C5_NoFatalPath == pc # "crashed" /\ exit_status \in {-1, 0}

\* C9: when a second run on the same data_dir and output_dir has completed,
\* the output tree is the one the first run left.
C9_RerunIdempotent == (pc = "done" /\ run >= 2) => out = snapshot

C9_Witness ==
    /\ pc = "done"
    /\ run = 2
    /\ out0.cls[1].files[1] = StaleFile
    /\ out.cls[1].files[1].tag = "image"
    /\ out.cls[2].files[1].tag = "image"
    /\ out = snapshot

(***************************************************************************)
(* Properties of the padded crop rectangle (SpecPad).                      *)
(***************************************************************************)
\* C4: the padded crop rectangle has a non-negative origin, is at least one
\* pixel wide and high, and lies inside the W x H image.
C4_CropInsideImage ==
    pad_st.pc = "cropped" =>
        /\ pad_st.crop[1] >= 0
        /\ pad_st.crop[2] >= 0
        /\ pad_st.crop[3] >= 1
        /\ pad_st.crop[4] >= 1
        /\ pad_st.crop[1] + pad_st.crop[3] <= pad_st.W
        /\ pad_st.crop[2] + pad_st.crop[4] <= pad_st.H
        /\ pad_st.shape = <<pad_st.crop[3], pad_st.crop[4]>>

C4_Witness ==
    /\ pad_st.pc = "cropped"
    /\ pad_st.box[1] > 10
    /\ pad_st.box[1] + pad_st.box[3] + 10 > pad_st.W
    /\ pad_st.crop[1] = pad_st.box[1] - 10
    /\ pad_st.crop[1] + pad_st.crop[3] = pad_st.W
    /\ pad_st.crop[2] = 0

\* C10: the crop spans columns max(0, x-10) up to min(W, x+w+10) and rows
\* max(0, y-10) up to min(H, y+h+10): at most 10 pixels beyond the bounding
\* rectangle on each side.
C10_TenPixelsEachSide ==
    pad_st.pc = "cropped" =>
        /\ pad_st.crop[1] = Max(0, pad_st.box[1] - 10)
        /\ pad_st.crop[1] + pad_st.crop[3] = Min(pad_st.W, pad_st.box[1] + pad_st.box[3] + 10)
        /\ pad_st.crop[2] = Max(0, pad_st.box[2] - 10)
        /\ pad_st.crop[2] + pad_st.crop[4] = Min(pad_st.H, pad_st.box[2] + pad_st.box[4] + 10)

(***************************************************************************)
(* Properties of the renderer (SpecPlot).                                  *)
(***************************************************************************)
BestComputed == plot_st.pc \in {"accuracy_panel", "loss_panel", "savefig", "show", "done"}

\* C6: once the best epochs are computed, both lie in 1..len(accuracy), the
\* value of val_accuracy at best_acc_epoch is best_acc and no value is
\* larger, the value of val_loss at best_loss_epoch is best_loss and no
\* value is smaller.
C6_BestEpochs ==
    BestComputed =>
        LET va == plot_st.history["val_accuracy"].vals
            vl == plot_st.history["val_loss"].vals
            b == plot_st.best
            n == Len(plot_st.history["accuracy"].vals)
        IN  /\ n >= 1 /\ plot_st.epochs = n
            /\ b.acc_epoch \in 1..n
            /\ va[b.acc_epoch] = b.acc
            /\ \A i \in 1..n : va[i] <= b.acc
            /\ b.loss_epoch \in 1..n
            /\ vl[b.loss_epoch] = b.loss
            /\ \A i \in 1..n : vl[i] >= b.loss

C6_Witness ==
    /\ plot_st.pc = "done"
    /\ plot_st.history["val_accuracy"].vals = <<0, 2, 1>>
    /\ plot_st.history["val_loss"].vals = <<2, 0, 1>>
    /\ plot_st.best = [acc_epoch |-> 2, acc |-> 2, loss_epoch |-> 2, loss |-> 0]

\* C7: without save_path no file is written by the call; with save_path,
\* none but the file at that path.
C7_NoFileWithoutSavePath ==
    IF plot_st.save_path.type = "NoneType"
    THEN plot_st.fs = {}
    ELSE plot_st.fs \subseteq {plot_st.save_path.val}

MissingKeys == {k \in Keys : ~plot_st.history[k].present}

\* C8: with any of the four keys absent, the call never saves a file and
\* never reaches the display, and the only place it stops is the error.
C8_MissingKeyAborts ==
    (plot_st.pc # "idle" /\ MissingKeys # {}) =>
        /\ plot_st.fs = {}
        /\ ~plot_st.shown
        /\ plot_st.pc \in {"start", "accuracy_panel", "loss_panel", "error"}
        /\ plot_st.pc # "error" => ENABLED NextPlot

C8_Witness ==
    /\ MissingKeys = {"loss"}
    /\ plot_st.history["val_loss"].vals = <<1, 0>>
    /\ plot_st.pc = "error"
    /\ plot_st.err = "ValueError"
    /\ plot_st.figure
    /\ plot_st.fs = {}

====
